---- MODULE Spec2Model ----
(***************************************************************************)
(* Model of delfick_app: CliParser (split_args, make_defaults, check_args,  *)
(* parse_args, make_parser, interpret_args) and App.mainline.              *)
(*                                                                         *)
(* A string is a sequence of one-character strings, so that                *)
(* str.startswith and " ".join are computed and not assumed.  A dict is a  *)
(* function; the keyword dict given to add_argument is a function whose    *)
(* domain is {} or {"default"}.                                            *)
(*                                                                         *)
(* Declarations are well formed: a flag is named by at most one entry of   *)
(* positional_replacements and by at most one entry of                     *)
(* environment_defaults.  environment_defaults is kept as the sequence of  *)
(* its items in the order the dict is iterated.                            *)
(***************************************************************************)
EXTENDS Integers, Sequences, FiniteSets, TLC

VARIABLES
    positional_replacements, \* self.positional_replacements
    environment_defaults,    \* self.environment_defaults, in iteration order
    environ,                 \* os.environ
    op,                      \* the method called last
    argv_in,                 \* the caller's token list before the call
    argv,                    \* the caller's token list after the call
    args,                    \* local args of split_args / parse_args
    other_args,              \* local other_args of split_args / parse_args
    defaults,                \* the defaults mapping made or passed in
    error,                   \* what the call raised, if anything
    trace,                   \* the calls the method made, in order
    categories,              \* the categories given to interpret_args
    parsed,                  \* vars(args) of the Namespace argparse returned
    cli_args,                \* the cli_args dict interpret_args builds
    fault,                   \* what a hook or the user's Ctrl-C raises, and where
    printed                  \* the lines printed to print_errors_to

parser_vars == << positional_replacements, environment_defaults, environ >>
mapper_vars == << categories, parsed, cli_args >>
mainline_vars == << fault, printed >>

vars == << positional_replacements, environment_defaults, environ, op,
           argv_in, argv, args, other_args, defaults, error,
           trace, categories, parsed, cli_args, fault, printed >>

---------------------------------------------------------------------------
(* Bounds and pools of values *)

MaxArgv == 3

Separator == << "-", "-" >>
FlagTask == << "-", "-", "t" >>
FlagConfig == << "-", "c" >>
Flags == { FlagTask, FlagConfig }
Words == { << "x" >>, << >> }
Tokens == { Separator } \cup Flags \cup Words
EnvNames == { "A" }
PositionalFallback == << "p" >>
EnvironmentFallback == << "e" >>

EnvironmentValue == << "v" >>

SeqsUpTo(S, n) == UNION { [1..k -> S] : k \in 0..n }

ArgvLists == SeqsUpTo(Tokens, MaxArgv)

\* an item of positional_replacements: "--flag" or ("--flag", default)
PositionalEntries ==
    [type : {"str"}, flag : Flags]
        \cup [type : {"tuple"}, flag : Flags, default : {PositionalFallback}]

\* an item of environment_defaults.items()
EnvironmentEntries ==
    [env_name : EnvNames,
     replacement : [type : {"str"}, flag : Flags]
        \cup [type : {"tuple"}, flag : Flags, default : {EnvironmentFallback}]]

\* no flag is given two positions
DistinctPositions(s) ==
    \A i, j \in DOMAIN s : i # j => s[i].flag # s[j].flag

\* dict keys are distinct, and no flag is given two environment variables
DistinctVariables(s) ==
    \A i, j \in DOMAIN s :
        i # j => /\ s[i].env_name # s[j].env_name
                 /\ s[i].replacement.flag # s[j].replacement.flag

PositionalDeclarations ==
    { s \in SeqsUpTo(PositionalEntries, Cardinality(Flags)) : DistinctPositions(s) }

EnvironmentDeclarations ==
    { s \in SeqsUpTo(EnvironmentEntries, Cardinality(EnvNames)) : DistinctVariables(s) }

Environments == { [n \in S |-> EnvironmentValue] : S \in SUBSET EnvNames }

---------------------------------------------------------------------------
(* Dicts *)

EmptyDict == [k \in {} |-> << >>]
Default(value) == [k \in {"default"} |-> value]

Put(d, key, value) ==
    [k \in (DOMAIN d) \cup {key} |-> IF k = key THEN value ELSE d[k]]

\* dict.get(key, {})
Get(d, key) == IF key \in DOMAIN d THEN d[key] ELSE EmptyDict

\* str.startswith for a one-character prefix
StartsWith(s, c) == Len(s) >= 1 /\ s[1] = c

\* x in list
Contains(list, x) == \E i \in DOMAIN list : list[i] = x

---------------------------------------------------------------------------
(* make_defaults *)

\* as EnvironmentLoop, forgetting the fallback a tuple declares
RECURSIVE EnvironmentLoopDropsFallback(_, _, _)
EnvironmentLoopDropsFallback(items, env, d) ==
    IF items = << >> THEN d
    ELSE LET item == Head(items)
             value == IF item.env_name \in DOMAIN env
                         THEN Default(env[item.env_name])
                      ELSE EmptyDict
         IN  EnvironmentLoopDropsFallback(Tail(items), env,
                                          Put(d, item.replacement.flag, value))

\* as EnvironmentLoop, looking at the declared fallback before os.environ
RECURSIVE EnvironmentLoopPrefersFallback(_, _, _)
EnvironmentLoopPrefersFallback(items, env, d) ==
    IF items = << >> THEN d
    ELSE LET item == Head(items)
             replacement == item.replacement
             value == IF replacement.type = "tuple"
                         THEN Default(replacement.default)
                      ELSE IF item.env_name \in DOMAIN env
                         THEN Default(env[item.env_name])
                      ELSE EmptyDict
         IN  EnvironmentLoopPrefersFallback(Tail(items), env,
                                            Put(d, replacement.flag, value))

\* the loop over environment_defaults.items()
RECURSIVE EnvironmentLoop(_, _, _)
EnvironmentLoop(items, env, d) ==
    IF items = << >> THEN d
    ELSE LET item == Head(items)
             replacement == item.replacement
             value == IF item.env_name \in DOMAIN env
                         THEN Default(env[item.env_name])
                      ELSE IF replacement.type = "tuple"
                         THEN Default(replacement.default)
                      ELSE EmptyDict
         IN  EnvironmentLoop(Tail(items), env, Put(d, replacement.flag, value))

\* as PositionalLoop, popping the token but keeping a default already recorded
RECURSIVE PositionalLoopKeepsExisting(_, _, _)
PositionalLoopKeepsExisting(replacements, tokens, d) ==
    IF replacements = << >> THEN [defaults |-> d, argv |-> tokens]
    ELSE IF tokens # << >> /\ ~StartsWith(Head(tokens), "-")
        THEN PositionalLoopKeepsExisting(Tail(replacements), Tail(tokens),
                IF Head(replacements).flag \in DOMAIN d THEN d
                ELSE Put(d, Head(replacements).flag, Default(Head(tokens))))
    ELSE [defaults |-> d, argv |-> tokens]

\* as PositionalLoop, without the test for a leading "-"
RECURSIVE PositionalLoopTakesFlags(_, _, _)
PositionalLoopTakesFlags(replacements, tokens, d) ==
    IF replacements = << >> THEN [defaults |-> d, argv |-> tokens]
    ELSE IF tokens # << >>
        THEN PositionalLoopTakesFlags(Tail(replacements), Tail(tokens),
                Put(d, Head(replacements).flag, Default(Head(tokens))))
    ELSE [defaults |-> d, argv |-> tokens]

\* the first loop over positional_replacements: pops leading tokens
RECURSIVE PositionalLoop(_, _, _)
PositionalLoop(replacements, tokens, d) ==
    IF replacements = << >> THEN [defaults |-> d, argv |-> tokens]
    ELSE IF tokens # << >> /\ ~StartsWith(Head(tokens), "-")
        THEN PositionalLoop(Tail(replacements), Tail(tokens),
                            Put(d, Head(replacements).flag, Default(Head(tokens))))
    ELSE [defaults |-> d, argv |-> tokens]

\* as FallbackLoop, without the test "replacement not in defaults"
RECURSIVE FallbackLoopOverwrites(_, _)
FallbackLoopOverwrites(replacements, d) ==
    IF replacements = << >> THEN d
    ELSE LET replacement == Head(replacements)
             next == IF replacement.type = "tuple"
                        THEN Put(d, replacement.flag, Default(replacement.default))
                     ELSE Put(d, replacement.flag, EmptyDict)
         IN  FallbackLoopOverwrites(Tail(replacements), next)

\* as FallbackLoop, recording nothing for a bare name
RECURSIVE FallbackLoopSkipsNames(_, _)
FallbackLoopSkipsNames(replacements, d) ==
    IF replacements = << >> THEN d
    ELSE LET replacement == Head(replacements)
             next == IF replacement.flag \notin DOMAIN d /\ replacement.type = "tuple"
                        THEN Put(d, replacement.flag, Default(replacement.default))
                     ELSE d
         IN  FallbackLoopSkipsNames(Tail(replacements), next)

\* as FallbackLoop, recording no default for a tuple either
RECURSIVE FallbackLoopForgetsDefault(_, _)
FallbackLoopForgetsDefault(replacements, d) ==
    IF replacements = << >> THEN d
    ELSE LET replacement == Head(replacements)
             next == IF replacement.flag \in DOMAIN d THEN d
                     ELSE Put(d, replacement.flag, EmptyDict)
         IN  FallbackLoopForgetsDefault(Tail(replacements), next)

\* the second loop over positional_replacements: declared fallbacks
RECURSIVE FallbackLoop(_, _)
FallbackLoop(replacements, d) ==
    IF replacements = << >> THEN d
    ELSE LET replacement == Head(replacements)
             next == IF replacement.flag \in DOMAIN d THEN d
                     ELSE IF replacement.type = "tuple"
                        THEN Put(d, replacement.flag, Default(replacement.default))
                     ELSE Put(d, replacement.flag, EmptyDict)
         IN  FallbackLoop(Tail(replacements), next)

make_defaults(tokens, replacements, env_defaults, env) ==
    LET from_env == EnvironmentLoop(env_defaults, env, EmptyDict)
        popped == PositionalLoop(replacements, tokens, from_env)
    IN  [defaults |-> FallbackLoop(replacements, popped.defaults),
         argv |-> popped.argv]

---------------------------------------------------------------------------
(* split_args *)

\* " ".join(list)
RECURSIVE Join(_)
Join(list) ==
    IF list = << >> THEN << >>
    ELSE IF Len(list) = 1 THEN list[1]
    ELSE list[1] \o << " " >> \o Join(Tail(list))

\* as SplitLoop, testing for "--" before testing extras
RECURSIVE SplitLoopRestartsExtras(_, _, _)
SplitLoopRestartsExtras(tokens, before, extras) ==
    IF tokens = << >> THEN [args |-> before, extras |-> extras]
    ELSE LET nxt == Head(tokens)
         IN  IF nxt = Separator
                THEN SplitLoopRestartsExtras(Tail(tokens), before,
                                             [is_none |-> FALSE, list |-> << >>])
             ELSE IF ~extras.is_none
                THEN SplitLoopRestartsExtras(Tail(tokens), before,
                        [is_none |-> FALSE, list |-> Append(extras.list, nxt)])
             ELSE SplitLoopRestartsExtras(Tail(tokens), Append(before, nxt), extras)

\* as SplitLoop, a second "--" ending the extras
RECURSIVE SplitLoopResumesArgs(_, _, _)
SplitLoopResumesArgs(tokens, before, extras) ==
    IF tokens = << >> THEN [args |-> before, extras |-> extras]
    ELSE LET nxt == Head(tokens)
         IN  IF nxt = Separator /\ ~extras.is_none
                THEN [args |-> before \o Tail(tokens), extras |-> extras]
             ELSE IF ~extras.is_none
                THEN SplitLoopResumesArgs(Tail(tokens), before,
                        [is_none |-> FALSE, list |-> Append(extras.list, nxt)])
             ELSE IF nxt = Separator
                THEN SplitLoopResumesArgs(Tail(tokens), before,
                                          [is_none |-> FALSE, list |-> << >>])
             ELSE SplitLoopResumesArgs(Tail(tokens), Append(before, nxt), extras)

\* the while loop of split_args; extras is None until "--" is met
RECURSIVE SplitLoop(_, _, _)
SplitLoop(tokens, before, extras) ==
    IF tokens = << >> THEN [args |-> before, extras |-> extras]
    ELSE LET nxt == Head(tokens)
         IN  IF ~extras.is_none
                THEN SplitLoop(Tail(tokens), before,
                               [is_none |-> FALSE, list |-> Append(extras.list, nxt)])
             ELSE IF nxt = Separator
                THEN SplitLoop(Tail(tokens), before, [is_none |-> FALSE, list |-> << >>])
             ELSE SplitLoop(Tail(tokens), Append(before, nxt), extras)

\* as split_args, handing make_defaults a copy of args
split_argsKeepsPositionals(tokens, replacements, env_defaults, env) ==
    LET split == SplitLoop(tokens, << >>, [is_none |-> TRUE, list |-> << >>])
        made == make_defaults(split.args, replacements, env_defaults, env)
    IN  [args |-> split.args,
         other_args |-> IF ~split.extras.is_none /\ split.extras.list # << >>
                           THEN Join(split.extras.list) ELSE << >>,
         defaults |-> made.defaults]

split_args(tokens, replacements, env_defaults, env) ==
    LET split == SplitLoop(tokens, << >>, [is_none |-> TRUE, list |-> << >>])
        made == make_defaults(split.args, replacements, env_defaults, env)
    IN  [args |-> made.argv,
         other_args |-> IF ~split.extras.is_none /\ split.extras.list # << >>
                           THEN Join(split.extras.list) ELSE << >>,
         defaults |-> made.defaults]

---------------------------------------------------------------------------
(* check_args *)

NoError == [kind |-> "none"]
BadOption(argument, position) ==
    [kind |-> "BadOption", argument |-> argument, position |-> position]
UsageError == [kind |-> "SystemExit", code |-> 2]

\* as CheckLoop, reporting the 0-based index
RECURSIVE CheckLoopZeroBased(_, _, _, _)
CheckLoopZeroBased(index, tokens, d, replacements) ==
    IF index >= Len(replacements) THEN NoError
    ELSE LET replacement == replacements[index + 1].flag
         IN  IF "default" \in DOMAIN Get(d, replacement) /\ Contains(tokens, replacement)
                THEN BadOption(replacement, index)
             ELSE CheckLoopZeroBased(index + 1, tokens, d, replacements)

\* the loop of check_args
RECURSIVE CheckLoop(_, _, _, _)
CheckLoop(index, tokens, d, replacements) ==
    IF index >= Len(replacements) THEN NoError
    ELSE LET replacement == replacements[index + 1].flag
         IN  IF "default" \in DOMAIN Get(d, replacement) /\ Contains(tokens, replacement)
                THEN BadOption(replacement, index + 1)
             ELSE CheckLoop(index + 1, tokens, d, replacements)

check_args(tokens, d, replacements) == CheckLoop(0, tokens, d, replacements)

---------------------------------------------------------------------------
(* parse_args *)

\* as parse_args, calling check_args before the argparse parser
parse_argsChecksFirst(tokens, accepted, replacements, env_defaults, env) ==
    LET split == split_args(tokens, replacements, env_defaults, env)
        checked == check_args(split.args, split.defaults, replacements)
    IN  [args |-> split.args, other_args |-> split.other_args,
         defaults |-> split.defaults,
         error |-> IF checked # NoError THEN checked
                   ELSE IF ~accepted THEN UsageError ELSE NoError,
         trace |-> IF checked # NoError
                      THEN << "split_args", "check_args" >>
                   ELSE << "split_args", "check_args", "make_parser",
                           "parser.parse_args" >>]

\* parse_args; accepted tells whether parser.parse_args(args) returns or
\* exits with status 2, which depends on what specify_other_args declared
parse_args(tokens, accepted, replacements, env_defaults, env) ==
    LET split == split_args(tokens, replacements, env_defaults, env)
    IN  [args |-> split.args, other_args |-> split.other_args,
         defaults |-> split.defaults,
         error |-> IF ~accepted THEN UsageError
                   ELSE check_args(split.args, split.defaults, replacements),
         trace |-> IF ~accepted
                      THEN << "split_args", "make_parser", "parser.parse_args" >>
                   ELSE << "split_args", "make_parser", "parser.parse_args",
                           "check_args" >>]

NoFault == [at |-> "nowhere"]

---------------------------------------------------------------------------
(* interpret_args: the loop that files vars(args) under the categories *)

MaxCategories == 2

CategoryNames == { << "a" >>, << "a", "_", "b" >>, << "o" >> }
Keys == { << "a" >>, << "a", "_", "x" >>, << "a", "_", "b" >>,
          << "a", "_", "b", "_", "x" >>, << "o", "x" >> }
Values == { << "1" >>, << "2" >> }
CategoryLists == SeqsUpTo(CategoryNames, MaxCategories)
Namespaces == UNION { [K -> Values] : K \in SUBSET Keys }

\* ord() of the characters the keys are made of
CodePoint == [c \in {"_", "a", "b", "o", "x"} |->
                 CASE c = "_" -> 95 [] c = "a" -> 97 [] c = "b" -> 98
                   [] c = "o" -> 111 [] c = "x" -> 120]

\* s < t for strings
RECURSIVE StrLess(_, _)
StrLess(s, t) ==
    IF t = << >> THEN FALSE
    ELSE IF s = << >> THEN TRUE
    ELSE IF s[1] = t[1] THEN StrLess(Tail(s), Tail(t))
    ELSE CodePoint[s[1]] < CodePoint[t[1]]

\* sorted(keys)
RECURSIVE Sorted(_)
Sorted(keys) ==
    IF keys = {} THEN << >>
    ELSE LET least == CHOOSE k \in keys : \A j \in keys \ {k} : StrLess(k, j)
         IN  << least >> \o Sorted(keys \ {least})

\* key.startswith("{0}_".format(category))
HasPrefix(key, category) ==
    /\ Len(key) >= Len(category) + 1
    /\ SubSeq(key, 1, Len(category) + 1) = category \o << "_" >>

\* key[(len(category)+1):]
Stripped(key, category) == SubSeq(key, Len(category) + 2, Len(key))

\* a value of cli_args: the dict of a category, or a parsed value
SubMapping(items) == [type |-> "dict", items |-> items]
Plain(value) == [type |-> "value", value |-> value]
TypeError == [kind |-> "TypeError"]

\* for category in categories: cli_args[category] = {}
RECURSIVE CategoryDicts(_, _)
CategoryDicts(cats, cli) ==
    IF cats = << >> THEN cli
    ELSE CategoryDicts(Tail(cats), Put(cli, Head(cats), SubMapping(EmptyDict)))

\* the inner loop: index of the first category the key belongs to, 0 if none
RECURSIVE FirstCategory(_, _, _)
FirstCategory(key, cats, index) ==
    IF index > Len(cats) THEN 0
    ELSE IF HasPrefix(key, cats[index]) THEN index
    ELSE FirstCategory(key, cats, index + 1)

\* the loop over sorted(vars(args).items()); assigning an item of a parsed
\* value (a str, a bool, None) raises TypeError
RECURSIVE ItemLoop(_, _, _, _)
ItemLoop(keys, namespace, cats, cli) ==
    IF keys = << >> THEN [cli_args |-> cli, error |-> NoError]
    ELSE LET key == Head(keys)
             found == FirstCategory(key, cats, 1)
         IN  IF found = 0
                THEN ItemLoop(Tail(keys), namespace, cats,
                              Put(cli, key, Plain(namespace[key])))
             ELSE IF cli[cats[found]].type # "dict"
                THEN [cli_args |-> cli, error |-> TypeError]
             ELSE ItemLoop(Tail(keys), namespace, cats,
                    Put(cli, cats[found],
                        SubMapping(Put(cli[cats[found]].items,
                                       Stripped(key, cats[found]),
                                       namespace[key]))))

\* interpret_args after parse_args returned the Namespace
interpret_args(namespace, cats) ==
    ItemLoop(Sorted(DOMAIN namespace), namespace, cats,
             CategoryDicts(cats, EmptyDict))

---------------------------------------------------------------------------
(* App.mainline *)

BangCount == 80

DebugFlag == << "-", "-", "d", "e", "b", "u", "g" >>
MainlineTokens == { Separator, FlagTask, DebugFlag, << "x" >> }
MainlineArgvs == SeqsUpTo(MainlineTokens, MaxArgv)

\* the calls of the try block, in the order of the source
MainlineSteps ==
    << "make_cli_parser", "interpret_args", "setup_logging",
       "set_boto_useragent", "execute" >>

\* what the hooks raise: a hook of any step may raise DelfickError, another
\* Exception, or be interrupted by Ctrl-C; interpret_args itself raises
\* DelfickError only as BadOption
Faults ==
    { NoFault }
        \cup [at : { "make_cli_parser", "setup_logging", "set_boto_useragent", "execute" },
              raises : { "DelfickError", "KeyboardInterrupt", "Exception" }]
        \cup [at : { "interpret_args" }, raises : { "KeyboardInterrupt", "Exception" }]

Raised(kind) == [kind |-> kind]
Exit(code) == [kind |-> "SystemExit", code |-> code]

\* isinstance(error, DelfickError)
IsDelfickError(err) == err.kind \in { "DelfickError", "BadOption", "UserQuit" }

\* the four print calls of the except block
Report(err) ==
    << << >>,
       [i \in 1..BangCount |-> "!"],
       [text |-> "Something went wrong! -- {0}", class |-> err.kind],
       [text |-> "\t{0}", error |-> err] >>

\* as RunSteps, with execute called before the boto user agent is set
RECURSIVE RunStepsExecutesEarly(_, _, _)
RunStepsExecutesEarly(index, flt, parse) ==
    LET order == << "make_cli_parser", "interpret_args", "setup_logging",
                    "execute", "set_boto_useragent" >>
    IN  IF index > Len(order)
           THEN [trace |-> order, raised |-> NoError]
        ELSE LET step == order[index]
                 raised == IF flt.at = step THEN Raised(flt.raises)
                           ELSE IF step = "interpret_args" THEN parse.error
                           ELSE NoError
             IN  IF raised # NoError
                    THEN [trace |-> SubSeq(order, 1, index), raised |-> raised]
                 ELSE RunStepsExecutesEarly(index + 1, flt, parse)

\* the statements of the try block from the index-th on, up to the first
\* that raises; interpret_args raises what parse_args raises
RECURSIVE RunSteps(_, _, _)
RunSteps(index, flt, parse) ==
    IF index > Len(MainlineSteps)
        THEN [trace |-> MainlineSteps, raised |-> NoError]
    ELSE LET step == MainlineSteps[index]
             raised == IF flt.at = step THEN Raised(flt.raises)
                       ELSE IF step = "interpret_args" THEN parse.error
                       ELSE NoError
         IN  IF raised # NoError
                THEN [trace |-> SubSeq(MainlineSteps, 1, index), raised |-> raised]
             ELSE RunSteps(index + 1, flt, parse)

\* cli_parser.parse_args(argv)[0].debug in the except blocks
DebugLookup(parse) ==
    IF parse.error # NoError THEN [raised |-> parse.error, debug |-> FALSE]
    ELSE [raised |-> NoError, debug |-> Contains(parse.args, DebugFlag)]

\* except KeyboardInterrupt: what leaves the inner try statement
InnerExcept(body, parse) ==
    IF Len(body.trace) >= 2 /\ body.raised.kind = "KeyboardInterrupt"
        THEN IF DebugLookup(parse).raised # NoError THEN DebugLookup(parse).raised
             ELSE IF DebugLookup(parse).debug THEN body.raised
             ELSE Raised("UserQuit")
    ELSE body.raised

\* except DelfickError: what is printed and what leaves mainline;
\* cli_parser is None when make_cli_parser raised
OuterExcept(body, parse) ==
    LET leaving == InnerExcept(body, parse)
    IN  IF leaving # NoError /\ IsDelfickError(leaving)
           THEN [printed |-> Report(leaving),
                 error |-> IF Len(body.trace) < 2 THEN Exit(1)
                           ELSE IF DebugLookup(parse).raised # NoError
                              THEN DebugLookup(parse).raised
                           ELSE IF DebugLookup(parse).debug THEN leaving
                           ELSE Exit(1)]
        ELSE [printed |-> << >>, error |-> leaving]

\* mainline(argv, print_errors_to)
mainline(tokens, accepted, flt, replacements, env_defaults, env) ==
    LET parse == parse_args(tokens, accepted, replacements, env_defaults, env)
        body == RunSteps(1, flt, parse)
        handled == OuterExcept(body, parse)
    IN  [trace |-> body.trace, printed |-> handled.printed, error |-> handled.error]

---------------------------------------------------------------------------
(* make_parser *)

VerboseFlag == << "-", "-", "v", "e", "r", "b", "o", "s", "e" >>
SilentFlag == << "-", "-", "s", "i", "l", "e", "n", "t" >>

\* the tokens given to the argparse parser: the logging flags, an
\* abbreviated flag and a word; split_args leaves no "--" among them
ParserTokens == { VerboseFlag, SilentFlag, DebugFlag, << "-", "-", "v" >>, << "x" >> }
ParserArgvs == SeqsUpTo(ParserTokens, MaxArgv)

\* flag.startswith(token)
Abbreviates(token, flag) ==
    Len(token) <= Len(flag) /\ SubSeq(flag, 1, Len(token)) = token

\* as make_parser, with --debug added to the parser and not to the group
make_parserDebugUngrouped(d) ==
    [options |-> { [flag |-> VerboseFlag, dest |-> "verbose"],
                   [flag |-> SilentFlag, dest |-> "silent"],
                   [flag |-> DebugFlag, dest |-> "debug"] },
     exclusive |-> { { "verbose", "silent" } }]

\* the ArgumentParser of make_parser: three store_true options in one
\* mutually exclusive group (specify_other_args adds nothing)
make_parser(d) ==
    [options |-> { [flag |-> VerboseFlag, dest |-> "verbose"],
                   [flag |-> SilentFlag, dest |-> "silent"],
                   [flag |-> DebugFlag, dest |-> "debug"] },
     exclusive |-> { { "verbose", "silent", "debug" } }]

\* the options a token selects: the one it spells, else those it abbreviates
OptionsFor(parser, token) ==
    LET exact == { o \in parser.options : o.flag = token }
    IN  IF exact # {} THEN exact
        ELSE { o \in parser.options : Abbreviates(token, o.flag) }

Recognised(parser, token) ==
    StartsWith(token, "-") /\ Cardinality(OptionsFor(parser, token)) = 1

\* parser.parse_args(tokens) of argparse: exit status 2 on a token that
\* selects no single option (the parser has no positional arguments) and on
\* two options of one exclusive group; else the Namespace of the
\* store_true options
ParserParseArgs(parser, tokens) ==
    LET seen == { o.dest : o \in { o \in parser.options :
                    \E i \in DOMAIN tokens :
                        /\ Recognised(parser, tokens[i])
                        /\ o \in OptionsFor(parser, tokens[i]) } }
        dests == { o.dest : o \in parser.options }
    IN  IF \E i \in DOMAIN tokens : ~Recognised(parser, tokens[i])
           THEN [namespace |-> EmptyDict, error |-> UsageError]
        ELSE IF \E group \in parser.exclusive : Cardinality(group \cap seen) >= 2
           THEN [namespace |-> EmptyDict, error |-> UsageError]
        ELSE [namespace |-> [dest \in dests |-> dest \in seen], error |-> NoError]

---------------------------------------------------------------------------
(* The calls *)

\* CliParser(description, positional_replacements, environment_defaults),
\* and the token list object the caller holds
Init ==
    /\ positional_replacements \in PositionalDeclarations
    /\ environment_defaults \in EnvironmentDeclarations
    /\ environ \in Environments
    /\ op = "new"
    /\ argv \in ArgvLists
    /\ argv_in = argv
    /\ args = << >>
    /\ other_args = << >>
    /\ defaults = EmptyDict
    /\ error = NoError
    /\ trace = << >>
    /\ categories = << >>
    /\ parsed = EmptyDict
    /\ cli_args = EmptyDict
    /\ fault = NoFault
    /\ printed = << >>

\* parser.make_defaults(argv, self.positional_replacements, self.environment_defaults)
MakeDefaults ==
    LET made == make_defaults(argv, positional_replacements, environment_defaults, environ)
    IN  /\ op' = "make_defaults"
        /\ argv_in' = argv
        /\ argv' = made.argv
        /\ args' = << >>
        /\ other_args' = << >>
        /\ defaults' = made.defaults
        /\ error' = NoError
        /\ trace' = << >>
        /\ UNCHANGED << parser_vars, mapper_vars, mainline_vars >>

\* as SplitArgs, the while loop popping from the caller's list
SplitArgsWithoutCopy ==
    LET split == split_args(argv, positional_replacements, environment_defaults, environ)
    IN  /\ op' = "split_args"
        /\ argv_in' = argv
        /\ argv' = << >>
        /\ args' = split.args
        /\ other_args' = split.other_args
        /\ defaults' = split.defaults
        /\ error' = NoError
        /\ trace' = << "make_defaults" >>
        /\ UNCHANGED << parser_vars, mapper_vars, mainline_vars >>

\* parser.split_args(argv)
SplitArgs ==
    LET split == split_args(argv, positional_replacements, environment_defaults, environ)
    IN  /\ op' = "split_args"
        /\ argv_in' = argv
        /\ args' = split.args
        /\ other_args' = split.other_args
        /\ defaults' = split.defaults
        /\ error' = NoError
        /\ trace' = << "make_defaults" >>
        /\ UNCHANGED << parser_vars, argv, mapper_vars, mainline_vars >>

\* parser.check_args(argv, defaults, self.positional_replacements)
CheckArgs ==
    /\ op' = "check_args"
    /\ argv_in' = argv
    /\ args' = << >>
    /\ other_args' = << >>
    /\ error' = check_args(argv, defaults, positional_replacements)
    /\ trace' = << >>
    /\ UNCHANGED << parser_vars, argv, defaults, mapper_vars, mainline_vars >>

\* parser.parse_args(argv); whether the argparse parser accepts the tokens
\* depends on what specify_other_args declared, so it is an input
ParseArgs(accepted) ==
    LET call == parse_args(argv, accepted, positional_replacements,
                           environment_defaults, environ)
    IN  /\ op' = "parse_args"
        /\ argv_in' = argv
        /\ args' = call.args
        /\ other_args' = call.other_args
        /\ defaults' = call.defaults
        /\ error' = call.error
        /\ trace' = call.trace
        /\ UNCHANGED << parser_vars, argv, mapper_vars, mainline_vars >>

Next ==
    \/ MakeDefaults
    \/ SplitArgs
    \/ CheckArgs
    \/ \E accepted \in BOOLEAN : ParseArgs(accepted)

Spec == Init /\ [][Next]_vars

\* a parser without declarations, and the Namespace its argparse parser
\* returns for the caller's tokens, which specify_other_args decides
InitCategories ==
    /\ positional_replacements = << >>
    /\ environment_defaults = << >>
    /\ environ = EmptyDict
    /\ op = "new"
    /\ argv = << >>
    /\ argv_in = argv
    /\ args = << >>
    /\ other_args = << >>
    /\ defaults = EmptyDict
    /\ error = NoError
    /\ trace = << >>
    /\ categories \in CategoryLists
    /\ parsed \in Namespaces
    /\ cli_args = EmptyDict
    /\ fault = NoFault
    /\ printed = << >>

\* parser.interpret_args(argv, categories)
InterpretArgs ==
    LET call == parse_args(argv, TRUE, positional_replacements,
                           environment_defaults, environ)
        filed == interpret_args(parsed, categories)
    IN  /\ op' = "interpret_args"
        /\ argv_in' = argv
        /\ args' = call.args
        /\ other_args' = call.other_args
        /\ defaults' = call.defaults
        /\ trace' = << "parse_args" >>
        /\ cli_args' = filed.cli_args
        /\ error' = filed.error
        /\ UNCHANGED << parser_vars, argv, categories, parsed, mainline_vars >>

NextCategories == InterpretArgs

\* an App with positional replacements and no environment defaults, and
\* the argv given to mainline
InitMainline ==
    /\ positional_replacements \in PositionalDeclarations
    /\ environment_defaults = << >>
    /\ environ = EmptyDict
    /\ op = "new"
    /\ argv \in MainlineArgvs
    /\ argv_in = argv
    /\ args = << >>
    /\ other_args = << >>
    /\ defaults = EmptyDict
    /\ error = NoError
    /\ trace = << >>
    /\ categories = << >>
    /\ parsed = EmptyDict
    /\ cli_args = EmptyDict
    /\ fault = NoFault
    /\ printed = << >>

\* app.mainline(argv, print_errors_to); parsed is the Namespace the argparse
\* parser returns for the tokens, empty when it exits with status 2
Mainline(accepted, flt) ==
    LET parse == parse_args(argv, accepted, positional_replacements,
                            environment_defaults, environ)
        run == mainline(argv, accepted, flt, positional_replacements,
                        environment_defaults, environ)
    IN  /\ op' = "mainline"
        /\ argv_in' = argv
        /\ args' = parse.args
        /\ other_args' = parse.other_args
        /\ defaults' = parse.defaults
        /\ parsed' = IF accepted
                        THEN [k \in {"debug"} |-> Contains(parse.args, DebugFlag)]
                     ELSE EmptyDict
        /\ fault' = flt
        /\ trace' = run.trace
        /\ printed' = run.printed
        /\ error' = run.error
        /\ UNCHANGED << parser_vars, argv, categories, cli_args >>

NextMainline == \E accepted \in BOOLEAN, flt \in Faults : Mainline(accepted, flt)

SpecMainline == InitMainline /\ [][NextMainline]_vars

\* environment defaults with two variables, which may name the same flag
OrderNames == { "A", "B" }
OrderEntries ==
    [env_name : OrderNames,
     replacement : [type : {"str"}, flag : Flags]
        \cup [type : {"tuple"}, flag : Flags, default : {EnvironmentFallback}]]

\* dict keys are distinct
DistinctNames(s) ==
    \A i, j \in DOMAIN s : i # j => s[i].env_name # s[j].env_name

OrderDeclarations ==
    { s \in SeqsUpTo(OrderEntries, Cardinality(OrderNames)) : DistinctNames(s) }

OrderTokens == { << "x" >>, FlagTask }
OrderArgvs == SeqsUpTo(OrderTokens, MaxArgv)

\* the orders environment_defaults.items() may yield the items of the dict in
ItemOrders(items) ==
    { s \in OrderDeclarations :
        /\ Len(s) = Len(items)
        /\ \A i \in DOMAIN items : Contains(s, items[i]) }

InitOrder ==
    /\ positional_replacements \in PositionalDeclarations
    /\ environment_defaults \in OrderDeclarations
    /\ environ \in { [n \in S |-> EnvironmentValue] : S \in SUBSET OrderNames }
    /\ op = "new"
    /\ argv \in OrderArgvs
    /\ argv_in = argv
    /\ args = << >>
    /\ other_args = << >>
    /\ defaults = EmptyDict
    /\ error = NoError
    /\ trace = << >>
    /\ categories = << >>
    /\ parsed = EmptyDict
    /\ cli_args = EmptyDict
    /\ fault = NoFault
    /\ printed = << >>

\* parser.make_defaults(list(tokens), positional_replacements,
\* environment_defaults) on the same tokens as before, the loop over
\* environment_defaults.items() visiting the items in some order; trace is
\* the order of the names visited
MakeDefaultsInOrder(items) ==
    LET made == make_defaults(argv_in, positional_replacements, items, environ)
    IN  /\ items \in ItemOrders(environment_defaults)
        /\ op' = "make_defaults"
        /\ argv' = made.argv
        /\ defaults' = made.defaults
        /\ trace' = [i \in DOMAIN items |-> items[i].env_name]
        /\ args' = << >>
        /\ other_args' = << >>
        /\ error' = NoError
        /\ UNCHANGED << parser_vars, argv_in, mapper_vars, mainline_vars >>

NextOrder == \E items \in OrderDeclarations : MakeDefaultsInOrder(items)

SpecOrder == InitOrder /\ [][NextOrder]_vars

\* a parser with no replacements, and the tokens for its argparse parser
InitParser ==
    /\ positional_replacements = << >>
    /\ environment_defaults = << >>
    /\ environ = EmptyDict
    /\ op = "new"
    /\ argv \in ParserArgvs
    /\ argv_in = argv
    /\ args = << >>
    /\ other_args = << >>
    /\ defaults = EmptyDict
    /\ error = NoError
    /\ trace = << >>
    /\ categories = << >>
    /\ parsed = EmptyDict
    /\ cli_args = EmptyDict
    /\ fault = NoFault
    /\ printed = << >>

\* parser.make_parser(defaults).parse_args(args)
MakeParserParseArgs ==
    LET result == ParserParseArgs(make_parser(defaults), argv)
    IN  /\ op' = "parser.parse_args"
        /\ argv_in' = argv
        /\ args' = argv
        /\ parsed' = result.namespace
        /\ error' = result.error
        /\ trace' = << "make_parser", "parser.parse_args" >>
        /\ UNCHANGED << parser_vars, argv, other_args, defaults, categories,
                        cli_args, mainline_vars >>

NextParser == MakeParserParseArgs

SpecParser == InitParser /\ [][NextParser]_vars

SpecCategories == InitCategories /\ [][NextCategories]_vars

---------------------------------------------------------------------------
(* Vocabulary of the properties *)

Min(a, b) == IF a <= b THEN a ELSE b

\* position of the first "--" of a token list, 0 when there is none
FirstSeparator(tokens) ==
    IF \E i \in DOMAIN tokens : tokens[i] = Separator
        THEN CHOOSE i \in DOMAIN tokens :
                /\ tokens[i] = Separator
                /\ \A j \in 1..(i - 1) : tokens[j] # Separator
    ELSE 0

BeforeSeparator(tokens) ==
    IF FirstSeparator(tokens) = 0 THEN tokens
    ELSE SubSeq(tokens, 1, FirstSeparator(tokens) - 1)

AfterSeparator(tokens) ==
    IF FirstSeparator(tokens) = 0 THEN << >>
    ELSE SubSeq(tokens, FirstSeparator(tokens) + 1, Len(tokens))

\* the first n items of a list joined by single spaces, built from the left
RECURSIVE SpaceJoined(_, _)
SpaceJoined(list, n) ==
    IF n = 0 THEN << >>
    ELSE IF n = 1 THEN list[1]
    ELSE SpaceJoined(list, n - 1) \o << " " >> \o list[n]

\* length of the longest leading run of tokens that do not start with "-"
LeadingRun(tokens) ==
    CHOOSE n \in 0..Len(tokens) :
        /\ \A i \in 1..n : ~StartsWith(tokens[i], "-")
        /\ n < Len(tokens) => StartsWith(tokens[n + 1], "-")

\* a call that ran make_defaults, the token list it was given and left behind
Resolved == op \in {"make_defaults", "split_args", "parse_args"}
Split == op \in {"split_args", "parse_args"}
Given == IF op = "make_defaults" THEN argv_in ELSE BeforeSeparator(argv_in)
Remaining == IF op = "make_defaults" THEN argv ELSE args

\* number of positional tokens consumed, as the specification counts them
Consumed == Min(Len(positional_replacements), LeadingRun(Given))
ConsumedFor(flag) ==
    \E i \in 1..Consumed : positional_replacements[i].flag = flag

Resolves(flag, options) == flag \in DOMAIN defaults /\ defaults[flag] = options

---------------------------------------------------------------------------
(* make_defaults: precedence *)

PositionalFlags == { positional_replacements[i].flag : i \in DOMAIN positional_replacements }

\* C1 as the specification states it: for a flag that is a positional
\* replacement with a fallback and an environment default, with no token
\* consumed for it and the variable unset, the positional fallback is the
\* default, and there is no default only when neither entry has a fallback.
C1_PositionalFallbackOutranksEnvironmentFallback ==
    Resolved =>
        \A i \in DOMAIN positional_replacements, j \in DOMAIN environment_defaults :
            LET replacement == positional_replacements[i]
                item == environment_defaults[j]
            IN  ( /\ item.replacement.flag = replacement.flag
                  /\ ~ConsumedFor(replacement.flag)
                  /\ item.env_name \notin DOMAIN environ )
                => /\ replacement.type = "tuple"
                        => Resolves(replacement.flag, Default(replacement.default))
                   /\ Resolves(replacement.flag, EmptyDict)
                        => replacement.type = "str" /\ item.replacement.type = "str"

\* C1 amended: for a flag that is a positional replacement with a fallback and
\* an environment default, with no token consumed for it and the variable
\* unset, the environment default's fallback is the default, and the flag has
\* no default when the environment default declares no fallback.
C1_EnvironmentFallbackOutranksPositionalFallback ==
    Resolved =>
        \A i \in DOMAIN positional_replacements, j \in DOMAIN environment_defaults :
            LET replacement == positional_replacements[i]
                item == environment_defaults[j]
            IN  ( /\ replacement.type = "tuple"
                  /\ item.replacement.flag = replacement.flag
                  /\ ~ConsumedFor(replacement.flag)
                  /\ item.env_name \notin DOMAIN environ )
                => IF item.replacement.type = "tuple"
                      THEN Resolves(replacement.flag, Default(item.replacement.default))
                   ELSE Resolves(replacement.flag, EmptyDict)

C1_Witness ==
    /\ op = "make_defaults"
    /\ environ = EmptyDict
    /\ \E i \in DOMAIN positional_replacements, j \in DOMAIN environment_defaults :
        /\ positional_replacements[i].type = "tuple"
        /\ environment_defaults[j].replacement.type = "tuple"
        /\ environment_defaults[j].replacement.flag = positional_replacements[i].flag
        /\ ~ConsumedFor(positional_replacements[i].flag)
        /\ positional_replacements[i].default # environment_defaults[j].replacement.default
        /\ Resolves(positional_replacements[i].flag,
                    Default(environment_defaults[j].replacement.default))

\* C2: an environment default declared with a fallback, whose variable is
\* unset and whose flag consumed no positional token, resolves to that
\* fallback, also when the flag is a positional replacement with its own.
C2_EnvironmentFallbackApplies ==
    Resolved =>
        \A j \in DOMAIN environment_defaults :
            LET item == environment_defaults[j]
            IN  ( /\ item.replacement.type = "tuple"
                  /\ item.env_name \notin DOMAIN environ
                  /\ ~ConsumedFor(item.replacement.flag) )
                => Resolves(item.replacement.flag, Default(item.replacement.default))

C2_Witness ==
    /\ op = "split_args"
    /\ \E i \in DOMAIN positional_replacements, j \in DOMAIN environment_defaults :
        /\ environment_defaults[j].env_name \notin DOMAIN environ
        /\ environment_defaults[j].replacement.type = "tuple"
        /\ positional_replacements[i] =
              [type |-> "tuple", flag |-> environment_defaults[j].replacement.flag,
               default |-> PositionalFallback]
        /\ Given # << >>
        /\ ~ConsumedFor(positional_replacements[i].flag)
        /\ defaults[positional_replacements[i].flag] = Default(EnvironmentFallback)

\* C3: for a flag declared both ways whose variable is set, a positional
\* token consumed for the flag's entry is the default, and the token is gone
\* from the token list.
C3_PositionalOutranksEnvironment ==
    Resolved =>
        \A i \in 1..Consumed, j \in DOMAIN environment_defaults :
            LET flag == positional_replacements[i].flag
                item == environment_defaults[j]
            IN  (item.replacement.flag = flag /\ item.env_name \in DOMAIN environ)
                => /\ Resolves(flag, Default(Given[i]))
                   /\ Len(Remaining) = Len(Given) - Consumed
                   /\ \A k \in DOMAIN Remaining : Remaining[k] = Given[k + Consumed]

C3_Witness ==
    /\ op = "make_defaults"
    /\ \E i \in 1..Consumed, j \in DOMAIN environment_defaults :
        /\ environment_defaults[j].replacement.flag = positional_replacements[i].flag
        /\ environment_defaults[j].env_name \in DOMAIN environ
        /\ Given[i] # environ[environment_defaults[j].env_name]
        /\ defaults[positional_replacements[i].flag] = Default(Given[i])
        /\ Len(argv) < Len(argv_in)

\* C4: for a flag declared both ways whose variable is set and for which no
\* positional token is consumed, the variable's value is the default, whether
\* or not the positional replacement declares a fallback.
C4_EnvironmentOutranksPositionalFallback ==
    Resolved =>
        \A i \in DOMAIN positional_replacements, j \in DOMAIN environment_defaults :
            LET flag == positional_replacements[i].flag
                item == environment_defaults[j]
            IN  ( /\ item.replacement.flag = flag
                  /\ item.env_name \in DOMAIN environ
                  /\ ~ConsumedFor(flag) )
                => Resolves(flag, Default(environ[item.env_name]))

C4_Witness ==
    /\ op = "make_defaults"
    /\ \E i \in DOMAIN positional_replacements, j \in DOMAIN environment_defaults :
        /\ positional_replacements[i].type = "tuple"
        /\ environment_defaults[j].replacement.type = "tuple"
        /\ environment_defaults[j].replacement.flag = positional_replacements[i].flag
        /\ environment_defaults[j].env_name \in DOMAIN environ
        /\ ~ConsumedFor(positional_replacements[i].flag)
        /\ defaults[positional_replacements[i].flag] = Default(EnvironmentValue)

---------------------------------------------------------------------------
(* make_defaults: consumption and fallbacks *)

\* C5: the tokens consumed are the first k of the list, k the smaller of the
\* number of positional replacements and the length of the leading run of
\* tokens without a leading "-"; the i-th of them is the default of the i-th
\* entry's flag, and what is left is the list without its first k tokens.
C5_ConsumesLeadingRun ==
    Resolved =>
        /\ Remaining = SubSeq(Given, Consumed + 1, Len(Given))
        /\ \A i \in 1..Consumed :
              Resolves(positional_replacements[i].flag, Default(Given[i]))
        /\ positional_replacements = << >> => Remaining = Given

C5_Witness ==
    /\ op = "make_defaults"
    /\ Len(positional_replacements) = 2
    /\ Len(argv_in) = 3
    /\ ~StartsWith(argv_in[1], "-")
    /\ StartsWith(argv_in[2], "-")
    /\ ~StartsWith(argv_in[3], "-")
    /\ argv = Tail(argv_in)
    /\ defaults[positional_replacements[1].flag] = Default(argv_in[1])
    /\ "default" \notin DOMAIN defaults[positional_replacements[2].flag]

\* the mapping as the environment loop and the popping loop leave it
BeforeFallbacks ==
    PositionalLoop(positional_replacements, Given,
                   EnvironmentLoop(environment_defaults, environ, EmptyDict)).defaults

\* C6: a positional replacement whose flag is no key after the environment
\* loop and the popping loop is recorded with its fallback when it is a pair
\* and with no default when it is a bare name; a flag that is a key already is
\* left as it is.
C6_FallbackStep ==
    Resolved =>
        \A i \in DOMAIN positional_replacements :
            LET replacement == positional_replacements[i]
            IN  IF replacement.flag \in DOMAIN BeforeFallbacks
                   THEN Resolves(replacement.flag, BeforeFallbacks[replacement.flag])
                ELSE IF replacement.type = "tuple"
                   THEN Resolves(replacement.flag, Default(replacement.default))
                ELSE Resolves(replacement.flag, EmptyDict)

C6_Witness ==
    /\ op = "make_defaults"
    /\ Len(positional_replacements) = 2
    /\ Consumed = 0
    /\ positional_replacements[1].type = "tuple"
    /\ positional_replacements[2].type = "str"
    /\ positional_replacements[1].flag \notin DOMAIN BeforeFallbacks
    /\ positional_replacements[2].flag \in DOMAIN BeforeFallbacks
    /\ defaults[positional_replacements[1].flag] = Default(PositionalFallback)
    /\ defaults[positional_replacements[2].flag] = Default(EnvironmentValue)

---------------------------------------------------------------------------
(* split_args *)

\* C7: the passthrough string is the single-space join of the tokens after
\* the first "--", later "--" tokens included; it is empty when there is no
\* "--" or nothing after it, so it is non-empty only if tokens follow a "--".
C7_PassthroughIsJoinAfterFirstSeparator ==
    Split =>
        /\ other_args = SpaceJoined(AfterSeparator(argv_in), Len(AfterSeparator(argv_in)))
        /\ (FirstSeparator(argv_in) = 0 \/ FirstSeparator(argv_in) = Len(argv_in))
              => other_args = << >>
        /\ other_args # << >>
              => FirstSeparator(argv_in) \in 1..(Len(argv_in) - 1)

C7_Witness ==
    /\ op = "split_args"
    /\ Len(argv_in) = 3
    /\ argv_in[1] = Separator
    /\ argv_in[2] \in Words
    /\ argv_in[3] = Separator
    /\ other_args = argv_in[2] \o << " ", "-", "-" >>

\* C8 as the specification states it: the returned args are the tokens before
\* the first "--", or the whole list when there is no "--".
C8_ArgsAreTokensBeforeSeparator ==
    Split => args = BeforeSeparator(argv_in)

\* C8 amended: the returned args are the tokens before the first "--" (the
\* whole list when there is no "--") without the leading tokens make_defaults
\* consumed as positional values.
C8_ArgsAreUnconsumedTokensBeforeSeparator ==
    Split =>
        args = SubSeq(BeforeSeparator(argv_in), Consumed + 1,
                      Len(BeforeSeparator(argv_in)))

C8_Witness ==
    /\ op = "split_args"
    /\ Len(argv_in) = 3
    /\ FirstSeparator(argv_in) = 3
    /\ Consumed = 1
    /\ args = << argv_in[2] >>
    /\ argv = argv_in

---------------------------------------------------------------------------
(* check_args and parse_args *)

\* the entries check_args is to refuse, given the tokens and the mapping
Conflicting(tokens, d, replacements) ==
    { i \in DOMAIN replacements :
        /\ replacements[i].flag \in DOMAIN d
        /\ "default" \in DOMAIN d[replacements[i].flag]
        /\ \E k \in DOMAIN tokens : tokens[k] = replacements[i].flag }

Lowest(S) == CHOOSE i \in S : \A j \in S : i <= j

\* C9: check_args raises BadOption exactly when some positional replacement's
\* flag has a "default" in the mapping and is an element of the token list;
\* the error names the lowest such entry's flag and its 1-based index;
\* otherwise nothing is raised; the call changes nothing.
C9_CheckArgsRaisesOnLowestConflict ==
    [][ op' = "check_args" =>
          LET found == Conflicting(argv, defaults, positional_replacements)
          IN  /\ (error'.kind = "BadOption") <=> (found # {})
              /\ found # {} =>
                    error' = BadOption(positional_replacements[Lowest(found)].flag,
                                       Lowest(found))
              /\ found = {} => error' = NoError
              /\ UNCHANGED << argv, defaults, positional_replacements,
                              environment_defaults, environ >> ]_vars

C9_Witness ==
    /\ op = "check_args"
    /\ Len(positional_replacements) = 2
    /\ Cardinality(Conflicting(argv, defaults, positional_replacements)) = 1
    /\ error = BadOption(positional_replacements[2].flag, 2)
    /\ positional_replacements[1].flag \in DOMAIN defaults
    /\ argv_in = argv

\* C10: parse_args raises BadOption for a flag only when a positional token
\* was consumed for the flag and the flag is also a token before the "--".
C10_ConflictOnlyWhenGivenBothWays ==
    (op = "parse_args" /\ error.kind = "BadOption") =>
        /\ ConsumedFor(error.argument)
        /\ Contains(BeforeSeparator(argv_in), error.argument)

---------------------------------------------------------------------------
(* parse_args: order of the calls; make_defaults: keys of the mapping *)

ParseOrder == << "split_args", "make_parser", "parser.parse_args", "check_args" >>

\* C19: parse_args calls split_args, make_parser, the argparse parse and
\* check_args in this order, each once; check_args runs only after the
\* argparse parse returned, on the tokens left after consumption, and
\* parse_args returns only if check_args did not raise.
C19_ParseArgsOrder ==
    op = "parse_args" =>
        /\ Len(trace) \in 3..4
        /\ trace = SubSeq(ParseOrder, 1, Len(trace))
        /\ Contains(trace, "check_args") <=> error # UsageError
        /\ error # UsageError =>
              (error = NoError
                  <=> Conflicting(args, defaults, positional_replacements) = {})
        /\ error = NoError => trace = ParseOrder

C19_Witness ==
    /\ op = "parse_args"
    /\ trace = ParseOrder
    /\ error.kind = "BadOption"
    /\ Len(args) < Len(BeforeSeparator(argv_in))
    /\ FirstSeparator(argv_in) # 0

EnvironmentFlags ==
    { environment_defaults[j].replacement.flag : j \in DOMAIN environment_defaults }

\* C20: after make_defaults the keys of the mapping are exactly the flags
\* declared in positional_replacements and in environment_defaults, and each
\* value is {} or a dict with the single key "default".
C20_KeysAreDeclaredFlags ==
    Resolved =>
        /\ DOMAIN defaults = PositionalFlags \cup EnvironmentFlags
        /\ \A flag \in DOMAIN defaults : DOMAIN defaults[flag] \subseteq {"default"}

C20_Witness ==
    /\ op = "make_defaults"
    /\ Cardinality(DOMAIN defaults) = 2
    /\ Cardinality(PositionalFlags) = 1
    /\ PositionalFlags \cap EnvironmentFlags = {}
    /\ \E flag \in DOMAIN defaults : defaults[flag] = EmptyDict
    /\ \E flag \in DOMAIN defaults : DOMAIN defaults[flag] = {"default"}

---------------------------------------------------------------------------
(* interpret_args *)

\* the declared categories a key carries the prefix of
Matching(key) ==
    { i \in DOMAIN categories : HasPrefix(key, categories[i]) }

IsSubMapping(name) ==
    name \in DOMAIN cli_args /\ cli_args[name].type = "dict"

\* C11: a parsed pair whose key starts with "<category>_" is stored in the
\* sub-mapping of the first such category in declared order, under the key
\* without the prefix, and nowhere else; any other pair is stored unmodified
\* at the top level.
C11_PairsFiledUnderFirstCategory ==
    op = "interpret_args" =>
        \A key \in DOMAIN parsed :
            IF Matching(key) = {}
               THEN key \in DOMAIN cli_args /\ cli_args[key] = Plain(parsed[key])
            ELSE LET first == categories[Lowest(Matching(key))]
                 IN  /\ IsSubMapping(first)
                     /\ Stripped(key, first) \in DOMAIN cli_args[first].items
                     /\ cli_args[first].items[Stripped(key, first)] = parsed[key]
                     /\ key \in DOMAIN cli_args => cli_args[key].type = "dict"
                     /\ \A i \in Matching(key) :
                           (categories[i] # first /\ IsSubMapping(categories[i]))
                           => Stripped(key, categories[i])
                                 \notin DOMAIN cli_args[categories[i]].items

\* C12: the output maps every declared category to a sub-mapping, empty when
\* no key matched the category; no parsed key replaces a sub-mapping by a
\* plain value or makes the categorization fail.
C12_CategoriesStaySubMappings ==
    op = "interpret_args" =>
        /\ error = NoError
        /\ \A i \in DOMAIN categories :
              /\ IsSubMapping(categories[i])
              /\ (\A key \in DOMAIN parsed : i \notin Matching(key))
                    => cli_args[categories[i]].items = EmptyDict

---------------------------------------------------------------------------
(* App.mainline: C13 to C16 *)

DebugGiven == Contains(BeforeSeparator(argv_in), DebugFlag)

\* the argparse parser accepted the tokens and check_args found a conflict
ConflictGiven ==
    /\ parsed # EmptyDict
    /\ Conflicting(args, defaults, positional_replacements) # {}

\* the step the run stopped at, 0 when execute returned
StoppedAt ==
    IF \E i \in DOMAIN trace : fault.at = trace[i]
        THEN CHOOSE i \in DOMAIN trace : fault.at = trace[i]
    ELSE IF Len(trace) >= 2 /\ (parsed = EmptyDict \/ ConflictGiven) THEN 2
    ELSE 0

FaultRaised(kind) ==
    /\ StoppedAt > 0
    /\ fault.at = trace[StoppedAt]
    /\ fault.raises = kind

BadOptionRaised ==
    /\ StoppedAt = 2
    /\ fault.at # "interpret_args"
    /\ ConflictGiven

IsReport(lines, class) ==
    /\ Len(lines) = 4
    /\ lines[1] = << >>
    /\ Len(lines[2]) = 80 /\ \A i \in 1..80 : lines[2][i] = "!"
    /\ lines[3].class = class
    /\ lines[4].error.kind = class

\* C13: a DelfickError raised anywhere inside mainline (BadOption included),
\* when --debug is not given, is reported on print_errors_to and mainline
\* exits with status 1; the error does not escape.
C13_DelfickErrorIsReportedAndExits ==
    op = "mainline" /\ ~DebugGiven =>
        /\ FaultRaised("DelfickError") =>
              IsReport(printed, "DelfickError") /\ error = Exit(1)
        /\ BadOptionRaised =>
              IsReport(printed, "BadOption") /\ error = Exit(1)

\* C14: a KeyboardInterrupt during interpret_args, setup_logging or execute,
\* when --debug is not given, is reported as UserQuit and mainline exits
\* with status 1; the KeyboardInterrupt does not reach the caller.
C14_InterruptBecomesUserQuit ==
    ( /\ op = "mainline"
      /\ ~DebugGiven
      /\ FaultRaised("KeyboardInterrupt")
      /\ fault.at \in { "interpret_args", "setup_logging", "execute" } )
    => IsReport(printed, "UserQuit") /\ error = Exit(1)

\* C15: with --debug given no error becomes exit status 1: a DelfickError
\* of execute is re-raised after the report, a KeyboardInterrupt is
\* re-raised as such; in every mode any other exception propagates
\* unchanged with nothing printed.
C15_DebugReraises ==
    op = "mainline" =>
        /\ DebugGiven =>
              /\ error # Exit(1)
              /\ FaultRaised("DelfickError") /\ fault.at = "execute" =>
                    IsReport(printed, "DelfickError") /\ error = Raised("DelfickError")
              /\ FaultRaised("KeyboardInterrupt") /\ StoppedAt >= 2 =>
                    printed = << >> /\ error = Raised("KeyboardInterrupt")
        /\ FaultRaised("Exception") =>
              printed = << >> /\ error = Raised("Exception")

C16_Order ==
    << "make_cli_parser", "interpret_args", "setup_logging",
       "set_boto_useragent", "execute" >>

\* C16: the steps of mainline run in the order interpret_args,
\* setup_logging, set_boto_useragent, execute, each at most once, and a
\* step runs only if every earlier step completed without raising; execute
\* is not called when the parse or the conflict check failed.
C16_StepsInOrder ==
    op = "mainline" =>
        /\ Len(trace) \in 1..Len(C16_Order)
        /\ trace = SubSeq(C16_Order, 1, Len(trace))
        /\ \A i \in 1..(Len(trace) - 1) :
              /\ fault.at # trace[i]
              /\ trace[i] = "interpret_args" => parsed # EmptyDict /\ ~ConflictGiven
        /\ Len(trace) < Len(C16_Order) =>
              \/ fault.at = trace[Len(trace)]
              \/ trace[Len(trace)] = "interpret_args"
                   /\ (parsed = EmptyDict \/ ConflictGiven)

C16_Witness ==
    /\ op = "mainline"
    /\ ConflictGiven
    /\ trace = << "make_cli_parser", "interpret_args" >>
    /\ error.kind = "BadOption"

---------------------------------------------------------------------------
(* make_defaults: C17 *)

\* C17: two calls of make_defaults with identical tokens, positional
\* replacements, environment defaults and environment give identical
\* defaults and identical remaining tokens, whatever call came before and
\* in whatever order each call visits the environment default entries,
\* two variables naming one flag included.
C17_MakeDefaultsIsDeterministic ==
    [][ op = "make_defaults" /\ op' = "make_defaults"
            => defaults' = defaults /\ argv' = argv ]_vars

---------------------------------------------------------------------------
(* make_parser: C18 *)

LoggingFlags == { VerboseFlag, SilentFlag, DebugFlag }

\* the token is the flag or an abbreviation of it longer than "--"
Spells(token, flag) ==
    \/ token = flag
    \/ Len(token) >= 3 /\ Len(token) <= Len(flag)
          /\ \A i \in DOMAIN token : token[i] = flag[i]

LoggingGiven ==
    { flag \in LoggingFlags : \E i \in DOMAIN args : Spells(args[i], flag) }

---------------------------------------------------------------------------
(* split_args and the tokens after the separator: C21 *)

\* the token lists that have their first "--" where the given list has it
\* and the same tokens before it
SameBeforeSeparator ==
    { other \in ArgvLists :
        /\ FirstSeparator(other) = FirstSeparator(argv_in)
        /\ BeforeSeparator(other) = BeforeSeparator(argv_in) }

\* number of tokens of the list that are not among the returned args
Popped == Len(BeforeSeparator(argv_in)) - Len(args)

\* C21: for token lists that agree up to the first "--" split_args returns
\* the same args and the same defaults; every token consumed as a positional
\* value stands before the separator; a flag that occurs only after the
\* separator is never the argument of the conflict error.
C21_PassthroughHasNoInfluence ==
    ( Split /\ FirstSeparator(argv_in) # 0 ) =>
        /\ \A other \in SameBeforeSeparator :
              LET again == split_args(other, positional_replacements,
                                      environment_defaults, environ)
              IN  again.args = args /\ again.defaults = defaults
        /\ Popped \in 0..Len(positional_replacements)
        /\ args = SubSeq(BeforeSeparator(argv_in), Popped + 1,
                         Len(BeforeSeparator(argv_in)))
        /\ \A i \in 1..Popped :
              defaults[positional_replacements[i].flag]
                  = Default(BeforeSeparator(argv_in)[i])
        /\ \A flag \in PositionalFlags :
              ( /\ Contains(AfterSeparator(argv_in), flag)
                /\ ~Contains(BeforeSeparator(argv_in), flag) )
              => ~(error.kind = "BadOption" /\ error.argument = flag)

C21_Witness ==
    /\ op = "parse_args"
    /\ Len(argv_in) = 3
    /\ FirstSeparator(argv_in) = 2
    /\ Popped = 1
    /\ argv_in[3] \in PositionalFlags
    /\ "default" \in DOMAIN defaults[argv_in[3]]
    /\ Contains(trace, "check_args")
    /\ error = NoError

---------------------------------------------------------------------------
(* what the calls change: C22 *)

\* C22: split_args leaves the caller's token list as it was; make_defaults
\* changes the list it is given only by removing the leading tokens it
\* consumed; neither changes the positional replacements, the environment
\* defaults or the environment.
C22_CallsChangeOnlyConsumedTokens ==
    [][ /\ op' = "split_args" =>
              /\ argv' = argv
              /\ UNCHANGED parser_vars
        /\ op' = "make_defaults" =>
              /\ Len(argv') <= Len(argv)
              /\ argv' = SubSeq(argv, Len(argv) - Len(argv') + 1, Len(argv))
              /\ Len(argv) - Len(argv') <= Len(positional_replacements)
              /\ \A i \in 1..(Len(argv) - Len(argv')) :
                    /\ ~StartsWith(argv[i], "-")
                    /\ defaults'[positional_replacements[i].flag] = Default(argv[i])
              /\ UNCHANGED parser_vars ]_vars

C22_Witness ==
    /\ op = "split_args"
    /\ Len(argv_in) = 3
    /\ argv = argv_in
    /\ FirstSeparator(argv_in) = 0
    /\ Len(positional_replacements) = 2
    /\ Len(args) = 1

====
